---- MODULE Spec2Model ----
(***************************************************************************)
(* A model of the Unifi Access client (src/src/lib.rs): the generic        *)
(* request layer (generic_request_raw / _no_parse / generic_request), the  *)
(* NFC enrollment workflow (start, status poll, enroll loop, end) and card *)
(* removal.                                                                *)
(*                                                                         *)
(* Text is modelled as a sequence of words; `contains` is a search for a   *)
(* word.  A JSON document is a tagged tree:                                *)
(*   [t |-> "null"], [t |-> "num"], [t |-> "str", s |-> words],            *)
(*   [t |-> "obj", f |-> [field |-> value]]                                *)
(* and [t |-> "text", s |-> words] is a response body that is not JSON.    *)
(***************************************************************************)
EXTENDS Integers, Sequences, FiniteSets, TLC

\* ------------------------------------------------------------------ bounds
MaxPolls == 3      \* the poll and sleep counters saturate at this value
MaxSessions == 2   \* sessions that the server opens in one behaviour

\* --------------------------------------------------------------- constants
SESSION_NOT_FOUND == "SESSION_NOT_FOUND"
TOKEN_EMPTY == "TOKEN_EMPTY"
SUCCESS == <<"SUCCESS">>

\* ----------------------------------------------------- Option and Result
None == [some |-> FALSE]
Some(v) == [some |-> TRUE, v |-> v]
Ok(v) == [ok |-> TRUE, v |-> v]
Err(e) == [ok |-> FALSE, e |-> e]

\* The three concrete error types that end up in the Box<dyn Error>.
ReqwestError == [type |-> "reqwest::Error"]
JsonError(stage) == [type |-> "serde_json::Error", stage |-> stage]
SimpleError(msg) == [type |-> "SimpleError", msg |-> msg]

\* --------------------------------------------------------------- JSON
JNull == [t |-> "null"]
JNum == [t |-> "num"]
JStr(s) == [t |-> "str", s |-> s]
JObj(f) == [t |-> "obj", f |-> f]
JText(s) == [t |-> "text", s |-> s]

Range(s) == {s[i] : i \in DOMAIN s}

\* The words of the body as it is on the wire.
RECURSIVE Words(_)
Words(v) ==
  CASE v.t \in {"text", "str"} -> Range(v.s)
    [] v.t = "obj" -> UNION {Words(v.f[k]) : k \in DOMAIN v.f}
    [] OTHER -> {}

\* str::contains on the raw response
Contains(raw, marker) == marker \in Words(raw)

HasStr(v, k) == v.t = "obj" /\ k \in DOMAIN v.f /\ v.f[k].t = "str"

\* ParseGenericResponse that keeps a null data as a value (data: Value in
\* place of Option<Value>).
ParseGenericResponse_null_is_some(raw) ==
  IF HasStr(raw, "msg") /\ HasStr(raw, "code")
  THEN Ok([data |-> IF "data" \in DOMAIN raw.f
                    THEN Some(raw.f["data"]) ELSE Some(JNull),
           msg |-> raw.f["msg"].s,
           code |-> raw.f["code"].s])
  ELSE Err(JsonError("from_str"))

\* serde_json::from_str::<GenericResponse>: msg and code are required
\* strings, data is Option<Value> (a missing field and null both give None).
ParseGenericResponse(raw) ==
  IF HasStr(raw, "msg") /\ HasStr(raw, "code")
  THEN Ok([data |-> IF "data" \in DOMAIN raw.f /\ raw.f["data"].t # "null"
                    THEN Some(raw.f["data"]) ELSE None,
           msg |-> raw.f["msg"].s,
           code |-> raw.f["code"].s])
  ELSE Err(JsonError("from_str"))

\* DecodeNfcCard with the two fields taken from each other's key.
DecodeNfcCard_swapped(v) ==
  IF HasStr(v, "id") /\ HasStr(v, "token")
  THEN Ok([id |-> v.f["token"].s, token |-> v.f["id"].s])
  ELSE Err(JsonError("from_value"))

\* serde_json::from_value::<NfcCard>: both fields required, others ignored
DecodeNfcCard(v) ==
  IF HasStr(v, "id") /\ HasStr(v, "token")
  THEN Ok([id |-> v.f["id"].s, token |-> v.f["token"].s])
  ELSE Err(JsonError("from_value"))

\* serde_json::from_value::<CardUser>: user_id is Option<String>
DecodeCardUser(v) ==
  IF v.t # "obj" THEN Err(JsonError("from_value"))
  ELSE IF "user_id" \notin DOMAIN v.f \/ v.f["user_id"].t = "null"
       THEN Ok([user_id |-> None])
  ELSE IF v.f["user_id"].t = "str"
       THEN Ok([user_id |-> Some(v.f["user_id"].s)])
  ELSE Err(JsonError("from_value"))

\* serde_json::from_value::<serde_json::Value> never fails
DecodeValue(v) == Ok(v)

\* The shapes T that the callers of generic_request ask for.
Shapes == {"Value", "NfcCard", "CardUser"}
Decode(shape, v) ==
  CASE shape = "NfcCard" -> DecodeNfcCard(v)
    [] shape = "CardUser" -> DecodeCardUser(v)
    [] OTHER -> DecodeValue(v)

\* ------------------------------------------------------- request layer
\* What the transport hands back for one request: the body, or a failure
\* of send()/text().
TransportFailure == [t |-> "transport failure"]

generic_request_raw(net) ==
  IF net = TransportFailure THEN Err(ReqwestError) ELSE Ok(net)

\* An error text that is the server's msg alone, without the prefix and path.
ApiErrorMsg_bare(path, msg) == msg

\* "Failed request to {api_path}: {}", parsed.msg
ApiErrorMsg(path, msg) == <<"Failed request to", path, msg>>

\* generic_request_no_parse that looks at the code only when there is no data.
generic_request_no_parse_data_first(path, net) ==
  LET response == generic_request_raw(net) IN
  IF ~response.ok THEN response
  ELSE LET parsed == ParseGenericResponse(response.v) IN
       IF ~parsed.ok THEN parsed
       ELSE IF parsed.v.data.some THEN Ok(parsed.v.data)
       ELSE IF parsed.v.code # SUCCESS
            THEN Err(SimpleError(ApiErrorMsg(path, parsed.v.msg)))
       ELSE Ok(parsed.v.data)

generic_request_no_parse(path, net) ==
  LET response == generic_request_raw(net) IN
  IF ~response.ok THEN response
  ELSE LET parsed == ParseGenericResponse(response.v) IN
       IF ~parsed.ok THEN parsed
       ELSE IF parsed.v.code # SUCCESS
            THEN Err(SimpleError(ApiErrorMsg(path, parsed.v.msg)))
       ELSE Ok(parsed.v.data)

\* generic_request that decodes null when there is no data
\* (raw.unwrap_or_default() instead of raw.ok_or(..)?).
generic_request_null_default(shape, path, net) ==
  LET raw == generic_request_no_parse(path, net) IN
  IF ~raw.ok THEN raw
  ELSE Decode(shape, IF raw.v.some THEN raw.v.v ELSE JNull)

generic_request(shape, path, net) ==
  LET raw == generic_request_no_parse(path, net) IN
  IF ~raw.ok THEN raw
  ELSE IF ~raw.v.some
       THEN Err(SimpleError(<<"No data found in response">>))
  ELSE Decode(shape, raw.v.v)

\* ------------------------------------------------------ session calls
PathSessions == <<"/api/v1/developer/credentials/nfc_cards/sessions">>
PathSession(sid) == <<"/api/v1/developer/credentials/nfc_cards/sessions/", sid>>

\* start_nfc_enrollment_session, from the response on
start_nfc_enrollment_session(net) ==
  LET enroll_response == generic_request("Value", PathSessions, net) IN
  IF ~enroll_response.ok THEN enroll_response
  ELSE LET v == enroll_response.v IN
       IF ~(v.t = "obj" /\ "session_id" \in DOMAIN v.f)
       THEN Err(SimpleError(<<"session_id not found in response">>))
       ELSE IF v.f["session_id"].t # "str"
            THEN Err(SimpleError(<<"session_id not a string">>))
       ELSE Ok(v.f["session_id"].s)

SessionCanceled == SimpleError(<<"Session has been canceled">>)

\* serde_json::from_value::<Option<NfcCard>>
DecodeOptionNfcCard(v) ==
  IF v.t = "null" THEN Ok(None)
  ELSE LET c == DecodeNfcCard(v) IN IF c.ok THEN Ok(Some(c.v)) ELSE c

\* get_nfc_enrollment_session_status with the two marker checks in the
\* other order.
status_token_first(net) ==
  LET response == generic_request_raw(net) IN
  IF ~response.ok THEN response
  ELSE IF Contains(response.v, TOKEN_EMPTY) THEN Ok(None)
  ELSE IF Contains(response.v, SESSION_NOT_FOUND) THEN Err(SessionCanceled)
  ELSE LET parsed == ParseGenericResponse(response.v) IN
       IF ~parsed.ok THEN parsed
       ELSE IF ~parsed.v.data.some
            THEN Err(SimpleError(<<"data not found in response">>))
       ELSE DecodeOptionNfcCard(parsed.v.data.v)

\* get_nfc_enrollment_session_status that decodes the envelope first and
\* looks for the markers only when no card came out of it.
status_parse_first(net) ==
  LET response == generic_request_raw(net) IN
  IF ~response.ok THEN response
  ELSE LET parsed == ParseGenericResponse(response.v)
           card == IF parsed.ok /\ parsed.v.data.some
                   THEN DecodeOptionNfcCard(parsed.v.data.v)
                   ELSE Err(SimpleError(<<"data not found in response">>))
       IN IF card.ok THEN card
          ELSE IF Contains(response.v, SESSION_NOT_FOUND)
               THEN Err(SessionCanceled)
          ELSE IF Contains(response.v, TOKEN_EMPTY) THEN Ok(None)
          ELSE IF ~parsed.ok THEN parsed ELSE card

\* get_nfc_enrollment_session_status that takes a body it cannot parse for
\* "no card yet".
status_unparsed_is_none(net) ==
  LET response == generic_request_raw(net) IN
  IF ~response.ok THEN response
  ELSE IF Contains(response.v, SESSION_NOT_FOUND) THEN Err(SessionCanceled)
  ELSE IF Contains(response.v, TOKEN_EMPTY) THEN Ok(None)
  ELSE LET parsed == ParseGenericResponse(response.v) IN
       IF ~parsed.ok THEN Ok(None)
       ELSE IF ~parsed.v.data.some
            THEN Err(SimpleError(<<"data not found in response">>))
       ELSE DecodeOptionNfcCard(parsed.v.data.v)

\* get_nfc_enrollment_session_status, from the response on
get_nfc_enrollment_session_status(net) ==
  LET response == generic_request_raw(net) IN
  IF ~response.ok THEN response
  ELSE IF Contains(response.v, SESSION_NOT_FOUND) THEN Err(SessionCanceled)
  ELSE IF Contains(response.v, TOKEN_EMPTY) THEN Ok(None)
  ELSE LET parsed == ParseGenericResponse(response.v) IN
       IF ~parsed.ok THEN parsed
       ELSE IF ~parsed.v.data.some
            THEN Err(SimpleError(<<"data not found in response">>))
       ELSE DecodeOptionNfcCard(parsed.v.data.v)

\* end_enrollment_session, from the response on
end_enrollment_session(sid, net) ==
  LET r == generic_request_no_parse(PathSession(sid), net) IN
  IF ~r.ok THEN r ELSE Ok(<<>>)

\* ------------------------------------------------------------ the wire
Idle == [t |-> "idle"]
Request(method, path, body) ==
  [t |-> "req", method |-> method, path |-> path, body |-> body]
IsResponse(net) == net.t \notin {"idle", "req"}

Envelope(code, msg, data) ==
  JObj([code |-> JStr(code), msg |-> JStr(msg), data |-> data])
EnvelopeNoData(code, msg) == JObj([code |-> JStr(code), msg |-> JStr(msg)])
Card(id, token) == JObj([id |-> JStr(id), token |-> JStr(token)])

MsgOk == <<"success">>
CodeFail == <<"CODE_SYSTEM_ERROR">>
MsgFail == <<"System error">>
CodeNotFound == <<"CODE_CREDS_NFC_READ_", SESSION_NOT_FOUND>>
MsgNotFound == <<"Session not found">>
CodeTokenEmpty == <<"CODE_CREDS_NFC_READ_POLL_", TOKEN_EMPTY>>
MsgTokenEmpty == <<"Token empty">>

CardA == Card(<<"100001">>, <<"821CCB1B">>)

\* Bodies that contain TOKEN_EMPTY and not SESSION_NOT_FOUND.
PendingBodies ==
  { JText(<<TOKEN_EMPTY>>),
    Envelope(CodeTokenEmpty, MsgTokenEmpty, JNull),
    Envelope(SUCCESS, MsgOk, Card(<<TOKEN_EMPTY>>, <<"04A1B2C3">>)) }

\* Bodies with which the server reports that a session does not exist.
NotFoundBodies ==
  { Envelope(CodeNotFound, MsgNotFound, JNull),
    JText(<<SESSION_NOT_FOUND, TOKEN_EMPTY>>) }

\* Bodies without a marker.
PlainBodies ==
  { Envelope(SUCCESS, MsgOk, CardA),
    Envelope(SUCCESS, MsgOk,
             JObj([id |-> JStr(<<"100003">>), token |-> JStr(<<"0BADF00D">>),
                   note |-> JNum])),
    Envelope(CodeFail, MsgFail, CardA),
    EnvelopeNoData(CodeFail, MsgFail),
    EnvelopeNoData(SUCCESS, MsgOk),
    Envelope(SUCCESS, MsgOk, JNull),
    Envelope(SUCCESS, MsgOk, JObj([id |-> JStr(<<"100001">>)])),
    JObj([msg |-> JStr(MsgOk), data |-> CardA]),
    JText(<<"<html>", "502", "Bad", "Gateway">>) }

\* What the status endpoint may answer while the session is open.
OpenStatusBodies ==
  PendingBodies \cup PlainBodies
  \cup { Envelope(SUCCESS, MsgOk, Card(<<SESSION_NOT_FOUND>>, <<"821CCB1B">>)) }

Sid(n) == <<ToString(n)>>

\* A server msg that repeats the text of the cancellation failure.
MsgCanceled == <<"Session has been canceled">>

StartOkBody(sid) == Envelope(SUCCESS, MsgOk, JObj([session_id |-> JStr(sid)]))
StartFailBodies ==
  { EnvelopeNoData(CodeFail, MsgCanceled),
    EnvelopeNoData(SUCCESS, MsgOk),
    Envelope(SUCCESS, MsgOk, JObj([session_id |-> JNum])),
    Envelope(SUCCESS, MsgOk, JStr(MsgOk)),
    JText(<<"<html>", "502", "Bad", "Gateway">>) }

EndOkBodies ==
  { EnvelopeNoData(SUCCESS, MsgOk),
    Envelope(SUCCESS, MsgOk, JStr(MsgOk)) }

Devices == {"reader-1", "reader-2"}

\* ------------------------------------------------------------- state
VARIABLES
  pc,              \* enroll_nfc_card: where the task is
  session,         \* enroll_nfc_card: the local `session`
  result,          \* enroll_nfc_card: what the last call returned
  polls,           \* status requests issued by this call (saturating)
  sleeps,          \* sleeps completed by this call (saturating)
  overflow,        \* the counters have saturated
  received,        \* status responses this call has received (saturating)
  pending,         \* those of them that were token-empty bodies (saturating)
  lastBody,        \* the last status response this call has received
  holder,          \* session_state: Mutex<Option<String>>, the value
  lock,            \* session_state: who holds the mutex
  net,             \* the request or response of the enroll task in flight
  answeredClosed,  \* the last status answer was given for a closed session
  endedPolling,    \* the server handled an end of `session` during the loop
  cpc, csid, cresult, cresp, cnet,   \* the cancelling actor
  open,            \* server: the sessions that exist
  nextSid,         \* server: the next session number
  endIssued,       \* an end request for `session` has been issued
  qop, qshape, qpath, qnet, qout,      \* one call of the request layer
  rpc, rcard, rlog, rnet, rresult      \* remove_nfc_card

enrollVars == <<pc, session, result, polls, sleeps, overflow, received,
                pending, lastBody, answeredClosed, endedPolling>>
cancelVars == <<cpc, csid, cresult, cresp>>
serverVars == <<open, nextSid>>
sessionVars == <<enrollVars, holder, lock, net, cancelVars, cnet, serverVars,
                 endIssued>>
requestVars == <<qop, qshape, qpath, qnet, qout>>
removeVars == <<rpc, rcard, rlog, rnet, rresult>>
sideVars == <<requestVars, removeVars>>
vars == <<sessionVars, sideVars>>

Free == "free"

Init ==
  /\ pc = "idle" /\ session = None /\ result = None
  /\ polls = 0 /\ sleeps = 0 /\ overflow = FALSE
  /\ received = 0 /\ pending = 0 /\ lastBody = Idle
  /\ answeredClosed = FALSE /\ endedPolling = FALSE
  /\ holder = None /\ lock = Free /\ net = Idle
  /\ cpc = "idle" /\ csid = None /\ cresult = None /\ cresp = Idle
  /\ cnet = Idle
  /\ open = {} /\ nextSid = 1 /\ endIssued = FALSE
  /\ qop = "none" /\ qshape = "none" /\ qpath = <<>> /\ qnet = Idle
  /\ qout = None
  /\ rpc = "idle" /\ rcard = None /\ rlog = <<>> /\ rnet = Idle
  /\ rresult = None

\* Counters saturate at MaxPolls.
Bump(n) == IF n < MaxPolls THEN n + 1 ELSE n

\* A body that tells that no card has been read yet.
IsTokenEmptyBody(body) ==
  TOKEN_EMPTY \in Words(body) /\ SESSION_NOT_FOUND \notin Words(body)

\* ------------------------------------------------------ enroll_nfc_card
\* The call: the request of start_nfc_enrollment_session goes out.
EnrollCall ==
  /\ pc \in {"idle", "done"}
  /\ \E device_id \in Devices :
       net' = Request("POST", PathSessions, device_id)
  /\ pc' = "start"
  /\ session' = None /\ result' = None
  /\ polls' = 0 /\ sleeps' = 0 /\ overflow' = FALSE
  /\ received' = 0 /\ pending' = 0 /\ lastBody' = Idle
  /\ answeredClosed' = FALSE /\ endedPolling' = FALSE /\ endIssued' = FALSE
  /\ UNCHANGED <<holder, lock, cancelVars, cnet, serverVars, sideVars>>

\* EnrollStartReturn that goes on with an empty id when start has failed.
EnrollStartReturn_ignore_error ==
  /\ pc = "start" /\ IsResponse(net)
  /\ LET r == start_nfc_enrollment_session(net) IN
       session' = Some(IF r.ok THEN r.v ELSE <<>>)
  /\ pc' = "lock" /\ net' = Idle
  /\ UNCHANGED <<result, polls, sleeps, overflow, received, pending, lastBody,
                 answeredClosed, endedPolling, holder, lock, cancelVars, cnet,
                 serverVars, endIssued, sideVars>>

\* let session = self.start_nfc_enrollment_session(device_id).await?;
EnrollStartReturn ==
  /\ pc = "start" /\ IsResponse(net)
  /\ LET r == start_nfc_enrollment_session(net) IN
       IF r.ok
       THEN /\ session' = Some(r.v) /\ pc' = "lock" /\ UNCHANGED result
       ELSE /\ result' = Some(r) /\ pc' = "done" /\ UNCHANGED session
  /\ net' = Idle
  /\ UNCHANGED <<polls, sleeps, overflow, received, pending, lastBody,
                 answeredClosed, endedPolling, holder, lock, cancelVars, cnet,
                 serverVars, endIssued, sideVars>>

\* session_state.lock().unwrap()
EnrollLock ==
  /\ pc = "lock" /\ lock = Free
  /\ lock' = "enroll" /\ pc' = "store"
  /\ UNCHANGED <<session, result, polls, sleeps, overflow, received, pending,
                 lastBody, answeredClosed, endedPolling, holder, net,
                 cancelVars, cnet, serverVars, endIssued, sideVars>>

\* EnrollStore whose guard lives on into the loop: the mutex stays locked.
EnrollStore_keeps_lock ==
  /\ pc = "store"
  /\ holder' = Some(session.v) /\ pc' = "poll"
  /\ UNCHANGED <<session, result, polls, sleeps, overflow, received, pending,
                 lastBody, answeredClosed, endedPolling, lock, net,
                 cancelVars, cnet, serverVars, endIssued, sideVars>>

\* EnrollStore that releases the mutex without having written the id.
EnrollStore_no_write ==
  /\ pc = "store"
  /\ lock' = Free /\ pc' = "poll"
  /\ UNCHANGED <<session, result, polls, sleeps, overflow, received, pending,
                 lastBody, answeredClosed, endedPolling, holder, net,
                 cancelVars, cnet, serverVars, endIssued, sideVars>>

\* *guard = Some(session.clone()); the guard is dropped at the end of the
\* statement.
EnrollStore ==
  /\ pc = "store"
  /\ holder' = Some(session.v) /\ lock' = Free /\ pc' = "poll"
  /\ UNCHANGED <<session, result, polls, sleeps, overflow, received, pending,
                 lastBody, answeredClosed, endedPolling, net, cancelVars,
                 cnet, serverVars, endIssued, sideVars>>

\* The request of get_nfc_enrollment_session_status(&session) goes out.
EnrollPollSend ==
  /\ pc = "poll"
  /\ net' = Request("GET", PathSession(session.v), JNull)
  /\ polls' = Bump(polls) /\ overflow' = (overflow \/ polls = MaxPolls)
  /\ pc' = "polling"
  /\ UNCHANGED <<session, result, sleeps, received, pending, lastBody,
                 answeredClosed, endedPolling, holder, lock, cancelVars, cnet,
                 serverVars, endIssued, sideVars>>

\* EnrollPollReturn that empties the holder when enroll returns.
EnrollPollReturn_clears_holder ==
  /\ pc = "polling" /\ IsResponse(net)
  /\ LET r == get_nfc_enrollment_session_status(net) IN
       IF r.ok /\ ~r.v.some
       THEN /\ pc' = "sleep" /\ UNCHANGED <<result, holder>>
       ELSE /\ pc' = "done" /\ holder' = None
            /\ result' = Some(IF r.ok THEN Ok(r.v.v) ELSE r)
  /\ received' = Bump(received) /\ lastBody' = net
  /\ pending' = IF IsTokenEmptyBody(net) THEN Bump(pending) ELSE pending
  /\ net' = Idle
  /\ UNCHANGED <<session, polls, sleeps, overflow, answeredClosed,
                 endedPolling, lock, cancelVars, cnet, serverVars,
                 endIssued, sideVars>>

\* EnrollPollReturn that ends the session itself before it returns a failure.
EnrollPollReturn_ends_session ==
  /\ pc = "polling" /\ IsResponse(net)
  /\ LET r == get_nfc_enrollment_session_status(net) IN
       IF r.ok /\ ~r.v.some
       THEN /\ pc' = "sleep" /\ net' = Idle /\ UNCHANGED result
       ELSE /\ pc' = "done"
            /\ result' = Some(IF r.ok THEN Ok(r.v.v) ELSE r)
            /\ net' = IF r.ok THEN Idle
                      ELSE Request("DELETE", PathSession(session.v), JNull)
  /\ received' = Bump(received) /\ lastBody' = net
  /\ pending' = IF IsTokenEmptyBody(net) THEN Bump(pending) ELSE pending
  /\ UNCHANGED <<session, polls, sleeps, overflow, answeredClosed,
                 endedPolling, holder, lock, cancelVars, cnet, serverVars,
                 endIssued, sideVars>>

\* EnrollPollReturn that sleeps and polls again when the poll has failed.
EnrollPollReturn_retry_error ==
  /\ pc = "polling" /\ IsResponse(net)
  /\ LET r == get_nfc_enrollment_session_status(net) IN
       IF r.ok /\ r.v.some
       THEN /\ pc' = "done" /\ result' = Some(Ok(r.v.v))
       ELSE /\ pc' = "sleep" /\ UNCHANGED result
  /\ received' = Bump(received) /\ lastBody' = net
  /\ pending' = IF IsTokenEmptyBody(net) THEN Bump(pending) ELSE pending
  /\ net' = Idle
  /\ UNCHANGED <<session, polls, sleeps, overflow, answeredClosed,
                 endedPolling, holder, lock, cancelVars, cnet, serverVars,
                 endIssued, sideVars>>

\* match result: Ok(Some(card)) => return, Ok(None) => sleep,
\* Err(e) => return
EnrollPollReturn ==
  /\ pc = "polling" /\ IsResponse(net)
  /\ LET r == get_nfc_enrollment_session_status(net) IN
       IF r.ok /\ ~r.v.some
       THEN /\ pc' = "sleep" /\ UNCHANGED result
       ELSE /\ pc' = "done"
            /\ result' = Some(IF r.ok THEN Ok(r.v.v) ELSE r)
  /\ received' = Bump(received) /\ lastBody' = net
  /\ pending' = IF IsTokenEmptyBody(net) THEN Bump(pending) ELSE pending
  /\ net' = Idle
  /\ UNCHANGED <<session, polls, sleeps, overflow, answeredClosed,
                 endedPolling, holder, lock, cancelVars, cnet, serverVars,
                 endIssued, sideVars>>

\* EnrollSleep that gives up after its third sleep.
EnrollSleep_gives_up ==
  /\ pc = "sleep"
  /\ sleeps' = Bump(sleeps)
  /\ IF sleeps >= 2
     THEN /\ pc' = "done"
          /\ result' = Some(Err(SimpleError(<<"enrollment timed out">>)))
     ELSE /\ pc' = "poll" /\ UNCHANGED result
  /\ UNCHANGED <<session, polls, overflow, received, pending,
                 lastBody, answeredClosed, endedPolling, holder, lock, net,
                 cancelVars, cnet, serverVars, endIssued, sideVars>>

\* tokio::time::sleep(100ms).await is over
EnrollSleep ==
  /\ pc = "sleep"
  /\ sleeps' = Bump(sleeps) /\ pc' = "poll"
  /\ UNCHANGED <<session, result, polls, overflow, received, pending,
                 lastBody, answeredClosed, endedPolling, holder, lock, net,
                 cancelVars, cnet, serverVars, endIssued, sideVars>>

EnrollStep ==
  \/ EnrollStartReturn \/ EnrollLock \/ EnrollStore
  \/ EnrollPollSend \/ EnrollPollReturn \/ EnrollSleep

\* ------------------------------------------------- the cancelling actor
\* A second task that reads the shared holder and ends the session in it.
CancelLock ==
  /\ cpc = "idle" /\ lock = Free
  /\ lock' = "canceller" /\ cpc' = "read"
  /\ UNCHANGED <<enrollVars, holder, net, csid, cresult, cresp, cnet,
                 serverVars, endIssued, sideVars>>

CancelRead ==
  /\ cpc = "read"
  /\ csid' = holder /\ lock' = Free
  /\ cpc' = IF holder.some THEN "end" ELSE "idle"
  /\ UNCHANGED <<enrollVars, holder, net, cresult, cresp, cnet, serverVars,
                 endIssued, sideVars>>

\* The request of end_enrollment_session(session_id) goes out.
CancelEndSend ==
  /\ cpc = "end"
  /\ cnet' = Request("DELETE", PathSession(csid.v), JNull)
  /\ endIssued' = (endIssued \/ csid = session)
  /\ cpc' = "ending" /\ cresult' = None /\ cresp' = Idle
  /\ UNCHANGED <<enrollVars, holder, lock, net, csid, serverVars, sideVars>>

\* end_enrollment_session returns; the actor's copy of the id goes out of
\* scope.
CancelEndReturn ==
  /\ cpc = "ending" /\ IsResponse(cnet)
  /\ cresult' = Some(end_enrollment_session(csid.v, cnet))
  /\ cresp' = cnet /\ cnet' = Idle /\ cpc' = "idle" /\ csid' = None
  /\ UNCHANGED <<enrollVars, holder, lock, net, serverVars, endIssued,
                 sideVars>>

\* ------------------------------------------------ the server, the wire
\* POST sessions: a session is opened, or the request is refused (always,
\* once MaxSessions sessions have been opened).
ServerStart ==
  /\ net.t = "req" /\ net.method = "POST"
  /\ \/ /\ nextSid <= MaxSessions
        /\ net' = StartOkBody(Sid(nextSid))
        /\ open' = open \cup {Sid(nextSid)} /\ nextSid' = nextSid + 1
     \/ /\ net' \in StartFailBodies
        /\ UNCHANGED <<open, nextSid>>
  /\ UNCHANGED <<enrollVars, holder, lock, cancelVars, cnet, endIssued,
                 sideVars>>

\* GET sessions/{id}: not found once the session is gone.
ServerStatus ==
  /\ net.t = "req" /\ net.method = "GET"
  /\ LET sid == net.path[2] IN
       /\ net' \in IF sid \in open THEN OpenStatusBodies ELSE NotFoundBodies
       /\ answeredClosed' = (sid \notin open)
  /\ UNCHANGED <<pc, session, result, polls, sleeps, overflow, received,
                 pending, lastBody, endedPolling, holder, lock, cancelVars,
                 cnet, serverVars, endIssued, sideVars>>

\* DELETE sessions/{id}: closes the session; not found if it is gone.
ServerEnd ==
  /\ cnet.t = "req" /\ cnet.method = "DELETE"
  /\ LET sid == cnet.path[2] IN
       /\ cnet' \in IF sid \in open THEN EndOkBodies ELSE NotFoundBodies
       /\ open' = open \ {sid}
       /\ endedPolling' =
            (endedPolling
             \/ (session = Some(sid) /\ pc \in {"poll", "polling", "sleep"}))
  /\ UNCHANGED <<pc, session, result, polls, sleeps, overflow, received,
                 pending, lastBody, answeredClosed, holder, lock, net,
                 cancelVars, nextSid, endIssued, sideVars>>

\* The reader gives the session up by itself.
ServerExpire ==
  /\ \E sid \in open : open' = open \ {sid}
  /\ UNCHANGED <<enrollVars, holder, lock, net, cancelVars, cnet, nextSid,
                 endIssued, sideVars>>

\* send() or text() fails: the request or the response is lost.
TransportFail ==
  /\ \/ /\ net.t \notin {"idle", "transport failure"}
        /\ net' = TransportFailure /\ UNCHANGED cnet
     \/ /\ cnet.t \notin {"idle", "transport failure"}
        /\ cnet' = TransportFailure /\ UNCHANGED net
  /\ UNCHANGED <<enrollVars, holder, lock, cancelVars, serverVars, endIssued,
                 sideVars>>

Next ==
  \/ EnrollCall \/ EnrollStep
  \/ CancelLock \/ CancelRead \/ CancelEndSend \/ CancelEndReturn
  \/ ServerStart \/ ServerStatus \/ ServerEnd \/ ServerExpire
  \/ TransportFail

Spec == Init /\ [][Next]_vars

\* ==================================================== the request layer
PathUserCards(user_id) == <<"/api/v1/developer/users/", user_id, "/nfc_cards">>
PathUserCardsDelete(user_id) ==
  <<"/api/v1/developer/users/", user_id, "/nfc_cards/delete">>
PathCardToken(token) ==
  <<"/api/v1/developer/credentials/nfc_cards/tokens/", token>>

\* assign_nfc_card, from the response on
assign_nfc_card(user_id, resp) ==
  LET r == generic_request_no_parse(PathUserCards(user_id), resp) IN
  IF ~r.ok THEN r ELSE Ok(<<>>)

\* fetch_nfc_card_user, from the response on
fetch_nfc_card_user(token, resp) ==
  LET x == generic_request("CardUser", PathCardToken(token), resp) IN
  IF ~x.ok THEN x ELSE Ok(x.v.user_id)

Users == {<<"user-1">>, <<"user-2">>}
Tokens == {<<"821CCB1B">>, <<"04A1B2C3">>}

CardUserBody(token, user) ==
  Envelope(SUCCESS, MsgOk, JObj([token |-> JStr(token), user_id |-> user]))

\* What the token endpoint may answer to a lookup.
LookupBodies ==
  { CardUserBody(t, JStr(u)) : t \in Tokens, u \in Users }
  \cup { CardUserBody(t, JNull) : t \in Tokens }
  \cup { Envelope(SUCCESS, MsgOk, JObj([token |-> JStr(t)])) : t \in Tokens }
  \cup { CardUserBody(t, JNum) : t \in Tokens }
  \cup { Envelope(CodeFail, MsgFail,
                  JObj([token |-> JStr(t), user_id |-> JStr(<<"user-1">>)]))
           : t \in Tokens }
  \cup { EnvelopeNoData(SUCCESS, MsgOk),
         Envelope(SUCCESS, MsgOk, JStr(MsgOk)),
         JText(<<"<html>", "502", "Bad", "Gateway">>) }

\* What an endpoint without payload may answer.
NoPayloadBodies ==
  EndOkBodies
  \cup { EnvelopeNoData(CodeFail, MsgFail),
         Envelope(CodeFail, MsgFail, JStr(MsgOk)),
         JObj([msg |-> JStr(MsgOk)]),
         JText(<<"<html>", "502", "Bad", "Gateway">>) }

RequestBodies ==
  OpenStatusBodies \cup NotFoundBodies \cup StartFailBodies \cup EndOkBodies
  \cup LookupBodies \cup NoPayloadBodies
  \cup { StartOkBody(Sid(1)), TransportFailure }

Paths == {PathSessions, PathSession(Sid(1)), PathCardToken(<<"821CCB1B">>)}

\* generic_request_no_parse is called and returns.
CallRequestRaw ==
  /\ \E path \in Paths, body \in RequestBodies :
       /\ qpath' = path /\ qnet' = body
       /\ qout' = Some(generic_request_no_parse(path, body))
  /\ qop' = "generic_request_no_parse" /\ qshape' = "none"
  /\ UNCHANGED <<sessionVars, removeVars>>

\* generic_request::<T> is called and returns.
CallRequestTyped ==
  /\ \E path \in Paths, body \in RequestBodies, shape \in Shapes :
       /\ qpath' = path /\ qnet' = body /\ qshape' = shape
       /\ qout' = Some(generic_request(shape, path, body))
  /\ qop' = "generic_request"
  /\ UNCHANGED <<sessionVars, removeVars>>

\* end_enrollment_session is called and returns.
CallEnd ==
  /\ \E body \in RequestBodies :
       /\ qpath' = PathSession(Sid(1)) /\ qnet' = body
       /\ qout' = Some(end_enrollment_session(Sid(1), body))
  /\ qop' = "end_enrollment_session" /\ qshape' = "none"
  /\ UNCHANGED <<sessionVars, removeVars>>

\* assign_nfc_card is called and returns.
CallAssign ==
  /\ \E user_id \in Users, body \in RequestBodies :
       /\ qpath' = PathUserCards(user_id) /\ qnet' = body
       /\ qout' = Some(assign_nfc_card(user_id, body))
  /\ qop' = "assign_nfc_card" /\ qshape' = "none"
  /\ UNCHANGED <<sessionVars, removeVars>>

NextRequest == CallRequestRaw \/ CallRequestTyped \/ CallEnd \/ CallAssign

SpecRequest == Init /\ [][NextRequest]_vars

\* ====================================================== remove_nfc_card
Sent(req, user, log) == Append(log, [req |-> req, user |-> user, resp |-> Idle])
Answered(log, body) == [log EXCEPT ![Len(log)].resp = body]

\* The call: the request of fetch_nfc_card_user goes out.
RemoveCall ==
  /\ rpc \in {"idle", "done"}
  /\ \E token \in Tokens :
       /\ rcard' = Some(token)
       /\ rnet' = Request("GET", PathCardToken(token), JNull)
  /\ rlog' = Sent("lookup", None, <<>>)
  /\ rpc' = "lookup" /\ rresult' = None
  /\ UNCHANGED <<sessionVars, requestVars>>

\* let user = self.fetch_nfc_card_user(card).await?; then the unassign
\* request goes out if there is a user, the delete request if not.
RemoveLookupReturn ==
  /\ rpc = "lookup" /\ IsResponse(rnet)
  /\ LET user == fetch_nfc_card_user(rcard.v, rnet) IN
       IF ~user.ok
       THEN /\ rresult' = Some(user) /\ rpc' = "done" /\ rnet' = Idle
            /\ rlog' = Answered(rlog, rnet)
       ELSE IF user.v.some
       THEN /\ rnet' = Request("PUT", PathUserCardsDelete(user.v.v), rcard.v)
            /\ rlog' = Sent("unassign", user.v, Answered(rlog, rnet))
            /\ rpc' = "unassign" /\ UNCHANGED rresult
       ELSE /\ rnet' = Request("DELETE", PathCardToken(rcard.v), JNull)
            /\ rlog' = Sent("delete", None, Answered(rlog, rnet))
            /\ rpc' = "delete" /\ UNCHANGED rresult
  /\ UNCHANGED <<sessionVars, requestVars, rcard>>

\* RemoveUnassignReturn that drops the outcome of the unassign request.
RemoveUnassignReturn_ignored ==
  /\ rpc = "unassign" /\ IsResponse(rnet)
  /\ rnet' = Request("DELETE", PathCardToken(rcard.v), JNull)
  /\ rlog' = Sent("delete", None, Answered(rlog, rnet))
  /\ rpc' = "delete" /\ UNCHANGED rresult
  /\ UNCHANGED <<sessionVars, requestVars, rcard>>

\* The unassign request returns (`.await?`); then the delete request goes out.
RemoveUnassignReturn ==
  /\ rpc = "unassign" /\ IsResponse(rnet)
  /\ LET user_id == rlog[2].user.v
         r == generic_request_no_parse(PathUserCardsDelete(user_id), rnet)
     IN IF ~r.ok
        THEN /\ rresult' = Some(r) /\ rpc' = "done" /\ rnet' = Idle
             /\ rlog' = Answered(rlog, rnet)
        ELSE /\ rnet' = Request("DELETE", PathCardToken(rcard.v), JNull)
             /\ rlog' = Sent("delete", None, Answered(rlog, rnet))
             /\ rpc' = "delete" /\ UNCHANGED rresult
  /\ UNCHANGED <<sessionVars, requestVars, rcard>>

\* The delete request returns.
RemoveDeleteReturn ==
  /\ rpc = "delete" /\ IsResponse(rnet)
  /\ LET r == generic_request_no_parse(PathCardToken(rcard.v), rnet) IN
       rresult' = Some(IF r.ok THEN Ok(<<>>) ELSE r)
  /\ rlog' = Answered(rlog, rnet)
  /\ rpc' = "done" /\ rnet' = Idle
  /\ UNCHANGED <<sessionVars, requestVars, rcard>>

\* The server answers a request of remove_nfc_card.
RemoveServer ==
  /\ rnet.t = "req"
  /\ rnet' \in IF rnet.method = "GET" THEN LookupBodies ELSE NoPayloadBodies
  /\ UNCHANGED <<sessionVars, requestVars, rpc, rcard, rlog, rresult>>

\* send() or text() fails for a request of remove_nfc_card.
RemoveTransportFail ==
  /\ rnet.t \notin {"idle", "transport failure"}
  /\ rnet' = TransportFailure
  /\ UNCHANGED <<sessionVars, requestVars, rpc, rcard, rlog, rresult>>

NextRemove ==
  \/ RemoveCall \/ RemoveLookupReturn \/ RemoveUnassignReturn
  \/ RemoveDeleteReturn \/ RemoveServer \/ RemoveTransportFail

SpecRemove == Init /\ [][NextRemove]_vars

\* The polling task runs and the server answers status requests.
FairSpec == Spec /\ WF_vars(EnrollStep) /\ WF_vars(ServerStatus)

\* ============================================================== claims
InLoop == pc \in {"poll", "polling", "sleep"}
Canceled == Some(Err(SessionCanceled))

\* A body that decodes as an envelope: an object with string msg and code.
WellFormed(body) ==
  /\ body.t = "obj"
  /\ {"msg", "code"} \subseteq DOMAIN body.f
  /\ body.f["msg"].t = "str" /\ body.f["code"].t = "str"

HasMarker(body) ==
  SESSION_NOT_FOUND \in Words(body) \/ TOKEN_EMPTY \in Words(body)

\* A marker-free SUCCESS envelope whose data is a card.
ValidCardEnvelope(body) ==
  /\ WellFormed(body) /\ ~HasMarker(body)
  /\ body.f["code"].s = SUCCESS
  /\ "data" \in DOMAIN body.f
  /\ body.f["data"].t = "obj"
  /\ {"id", "token"} \subseteq DOMAIN body.f["data"].f
  /\ body.f["data"].f["id"].t = "str" /\ body.f["data"].f["token"].t = "str"

CardOf(body) ==
  [id |-> body.f["data"].f["id"].s, token |-> body.f["data"].f["token"].s]

\* C1: once a poll of enroll has received a body that contains
\* SESSION_NOT_FOUND, enroll has returned the SessionCanceled failure, with no
\* request in flight, no later poll and no sleep after that poll.
C1_CancelStops ==
  SESSION_NOT_FOUND \in Words(lastBody) =>
    /\ pc = "done" /\ result = Canceled /\ net = Idle
    /\ ~overflow => (polls = received /\ sleeps = received - 1)

C1_Witness ==
  /\ pc = "done" /\ received = 3 /\ pending = 2 /\ ~overflow
  /\ SESSION_NOT_FOUND \in Words(lastBody)
  /\ TOKEN_EMPTY \in Words(lastBody)

\* C2: when enroll has received n token-empty bodies and then a valid card
\* envelope, it has returned the card of that last body after exactly n + 1
\* polls and n sleeps; a sleep lies between any two consecutive polls and
\* none follows the last poll.
C2_PendingThenCard ==
  ~overflow =>
    /\ (pc = "done" /\ ValidCardEnvelope(lastBody) /\ received = pending + 1)
         => /\ result = Some(Ok(CardOf(lastBody)))
            /\ polls = pending + 1 /\ sleeps = pending
    /\ pc = "poll" => sleeps = polls
    /\ pc \in {"polling", "sleep"} => sleeps = polls - 1
    /\ (pc = "done" /\ polls > 0) => sleeps = polls - 1

C2_Witness ==
  /\ pc = "done" /\ ValidCardEnvelope(lastBody) /\ ~overflow
  /\ pending = 2 /\ received = 3 /\ polls = 3 /\ sleeps = 2
  /\ result = Some(Ok([id |-> <<"100001">>, token |-> <<"821CCB1B">>]))

\* C3 (the claim as stated): an end that the server answers with a
\* not-found body returns success.
C3_EndNotFoundIsOk ==
  (cresult.some /\ SESSION_NOT_FOUND \in Words(cresp)) => cresult.v.ok

\* C4 (the claim as stated, its finite part): when the server has handled an
\* end of the session while enroll was in its loop, what enroll returns is
\* the SessionCanceled failure.
C4_EndedReturnsCanceled ==
  (pc = "done" /\ endedPolling) => result = Canceled

\* C4 (amended): when the server has handled an end of the session while
\* enroll is in its loop, enroll eventually returns; it returns the
\* SessionCanceled failure whenever its last status request was answered for
\* the closed session and the answer arrived.
C4_CancelReachesLoop ==
  (endedPolling /\ InLoop) ~>
    (pc = "done" /\ ((answeredClosed /\ lastBody # TransportFailure)
                       => result = Canceled))

C4_Witness ==
  /\ pc = "done" /\ endedPolling /\ answeredClosed /\ result = Canceled
  /\ endIssued /\ cresult.some /\ cresult.v.ok

\* C5: from the moment enroll is about to issue its first poll, the holder
\* contains the id that the server gave to start, which is the id of the
\* session that enroll polls.
C5_IdPublishedBeforePoll ==
  (InLoop \/ polls > 0) =>
    /\ holder = Some(Sid(nextSid - 1))
    /\ session = holder
    /\ net.t = "req" => net.path = PathSession(holder.v)

C5_Witness ==
  /\ pc = "polling" /\ net.t = "req" /\ polls = 1 /\ nextSid = 3
  /\ holder = Some(Sid(2)) /\ cpc = "read"

\* C9: a poll body that is not a well-formed envelope and contains no marker
\* makes enroll return the decoding failure; it is never taken for pending.
C9_MalformedPoll ==
  (lastBody.t \notin {"idle", "transport failure"}
     /\ ~WellFormed(lastBody) /\ ~HasMarker(lastBody))
    => /\ pc = "done" /\ net = Idle
       /\ result = Some(Err(JsonError("from_str")))

C9_Witness ==
  /\ pc = "done" /\ received = 2 /\ pending = 1
  /\ lastBody.t = "text" /\ ~HasMarker(lastBody)
  /\ result = Some(Err(JsonError("from_str")))

\* A well-formed envelope whose code is SUCCESS.
SuccessEnvelope(body) == WellFormed(body) /\ body.f["code"].s = SUCCESS

HasData(body) == "data" \in DOMAIN body.f /\ body.f["data"].t # "null"

ApiError(path, body) ==
  [type |-> "SimpleError",
   msg |-> <<"Failed request to", path, body.f["msg"].s>>]
MissingData ==
  [type |-> "SimpleError", msg |-> <<"No data found in response">>]
SchemaMismatch == [type |-> "serde_json::Error", stage |-> "from_value"]
MalformedResponse == [type |-> "serde_json::Error", stage |-> "from_str"]

\* C6: a well-formed envelope whose code is not SUCCESS makes
\* generic_request_no_parse and generic_request fail with the error that
\* carries the request path and the envelope's msg, whatever its data.
C6_NonSuccessFails ==
  (qop \in {"generic_request_no_parse", "generic_request"}
     /\ WellFormed(qnet) /\ ~SuccessEnvelope(qnet))
    => qout = Some(Err(ApiError(qpath, qnet)))

C6_Witness ==
  /\ qop = "generic_request" /\ qshape = "NfcCard"
  /\ qnet = Envelope(CodeFail, MsgFail, CardA)
  /\ qout = Some(Err(ApiError(qpath, qnet)))

\* C7: on a SUCCESS envelope without data generic_request fails with the
\* missing-data error, which is neither an ApiError nor a decoding error,
\* generic_request_no_parse returns the absent payload, and
\* end_enrollment_session and assign_nfc_card succeed.
C7_SuccessNoData ==
  (SuccessEnvelope(qnet) /\ ~HasData(qnet)) =>
    /\ qop = "generic_request" =>
         /\ qout = Some(Err(MissingData))
         /\ qout.v.e # ApiError(qpath, qnet)
         /\ qout.v.e.type # SchemaMismatch.type
    /\ qop = "generic_request_no_parse" => qout = Some(Ok(None))
    /\ qop \in {"end_enrollment_session", "assign_nfc_card"}
         => qout = Some(Ok(<<>>))

C7_Witness ==
  /\ qop = "generic_request" /\ qshape = "Value"
  /\ qnet = Envelope(SUCCESS, MsgOk, JNull)
  /\ qout = Some(Err(MissingData))

\* Whether data has the shape, and what it decodes to.
Matches(shape, d) ==
  CASE shape = "NfcCard" ->
         /\ d.t = "obj" /\ {"id", "token"} \subseteq DOMAIN d.f
         /\ d.f["id"].t = "str" /\ d.f["token"].t = "str"
    [] shape = "CardUser" ->
         /\ d.t = "obj"
         /\ "user_id" \in DOMAIN d.f => d.f["user_id"].t \in {"null", "str"}
    [] OTHER -> TRUE

Decoded(shape, d) ==
  CASE shape = "NfcCard" -> [id |-> d.f["id"].s, token |-> d.f["token"].s]
    [] shape = "CardUser" ->
         [user_id |-> IF "user_id" \in DOMAIN d.f /\ d.f["user_id"].t = "str"
                      THEN [some |-> TRUE, v |-> d.f["user_id"].s]
                      ELSE [some |-> FALSE]]
    [] OTHER -> d

\* The outcome of generic_request as the claim orders it.
ExpectedTyped(shape, path, body) ==
  IF body = TransportFailure THEN [ok |-> FALSE, e |-> ReqwestError]
  ELSE IF ~WellFormed(body) THEN [ok |-> FALSE, e |-> MalformedResponse]
  ELSE IF ~SuccessEnvelope(body) THEN [ok |-> FALSE, e |-> ApiError(path, body)]
  ELSE IF ~HasData(body) THEN [ok |-> FALSE, e |-> MissingData]
  ELSE IF ~Matches(shape, body.f["data"])
       THEN [ok |-> FALSE, e |-> SchemaMismatch]
  ELSE [ok |-> TRUE, v |-> Decoded(shape, body.f["data"])]

\* C8: generic_request returns the decoded data of a SUCCESS envelope whose
\* data has the shape; its outcome is decided by the response alone, in the
\* order malformed, non-success code, missing data, schema mismatch, success.
C8_TypedOutcome ==
  qop = "generic_request" => qout = Some(ExpectedTyped(qshape, qpath, qnet))

C8_Witness ==
  /\ qop = "generic_request" /\ qshape = "NfcCard"
  /\ qnet = Envelope(SUCCESS, MsgOk,
                     JObj([id |-> JStr(<<"100003">>),
                           token |-> JStr(<<"0BADF00D">>), note |-> JNum]))
  /\ qout = Some(Ok([id |-> <<"100003">>, token |-> <<"0BADF00D">>]))

\* What a lookup response says about the holder of the card.
LookupSucceeded(body) ==
  SuccessEnvelope(body) /\ HasData(body) /\ Matches("CardUser", body.f["data"])
LookupHolder(body) == Decoded("CardUser", body.f["data"]).user_id

\* C10: remove_nfc_card issues the lookup first; it issues the unassign
\* request only for the holder that the lookup reported; it issues the delete
\* request only after a successful lookup and, when there is a holder, after
\* the unassign request for that holder has succeeded, and with no unassign
\* request when there is none.
C10_UnassignFirst ==
  /\ \A i \in DOMAIN rlog :
       /\ rlog[i].req = "lookup" <=> i = 1
       /\ rlog[i].req = "unassign" =>
            /\ i = 2 /\ LookupSucceeded(rlog[1].resp)
            /\ rlog[i].user.some /\ rlog[i].user = LookupHolder(rlog[1].resp)
       /\ rlog[i].req = "delete" =>
            /\ LookupSucceeded(rlog[1].resp)
            /\ IF LookupHolder(rlog[1].resp).some
               THEN /\ i = 3 /\ rlog[2].req = "unassign"
                    /\ SuccessEnvelope(rlog[2].resp)
               ELSE i = 2
  /\ (rpc = "unassign" /\ rnet.t = "req") =>
       rnet = Request("PUT", PathUserCardsDelete(rlog[2].user.v), rcard.v)
  /\ (rpc = "delete" /\ rnet.t = "req") =>
       rnet = Request("DELETE", PathCardToken(rcard.v), JNull)
  /\ (rpc = "done" /\ rresult.v.ok) =>
       /\ rlog[Len(rlog)].req = "delete"
       /\ SuccessEnvelope(rlog[Len(rlog)].resp)

C10_Witness ==
  /\ rpc = "done" /\ Len(rlog) = 3 /\ rresult = Some(Ok(<<>>))
  /\ rlog[2].req = "unassign" /\ rlog[2].user = Some(<<"user-2">>)

\* C11: the SessionCanceled failure is what enroll returns only when a poll
\* has received a body that contains SESSION_NOT_FOUND; no failure of start
\* and no other failure of a poll (transport, undecodable body, missing data,
\* data of the wrong shape, a failure code whose msg repeats the text of the
\* cancellation failure) has that value.
C11_CanceledIsDistinct ==
  /\ result = Canceled =>
       /\ pc = "done" /\ received > 0
       /\ SESSION_NOT_FOUND \in Words(lastBody)
  /\ (pc = "done" /\ (received = 0 \/ SESSION_NOT_FOUND \notin Words(lastBody)))
       => (result.some /\ (result.v.ok \/ result.v.e # SessionCanceled))

C11_Witness ==
  /\ pc = "done" /\ received = 0 /\ session = None /\ nextSid = 2
  /\ holder = Some(Sid(1))
  /\ result = Some(Err(SimpleError(ApiErrorMsg(PathSessions, MsgCanceled))))

\* C12 (the claim as stated): enroll issues no poll once the end request of
\* its session has been issued.
C12_NoPollAfterEnd ==
  [][~(endIssued /\ pc = "poll" /\ pc' = "polling")]_vars

\* C12 (amended): when a poll has been issued, and when the canceller has
\* issued the end request of the session, start has returned the id that the
\* server gave, and that id is the one in the holder; the loop goes on polling
\* after the end request.
C12_StartPrecedes ==
  /\ (InLoop \/ polls > 0) =>
       /\ nextSid > 1 /\ session = Some(Sid(nextSid - 1))
  /\ endIssued =>
       /\ nextSid > 1 /\ session = Some(Sid(nextSid - 1)) /\ holder = session
       /\ pc \in {"poll", "polling", "sleep", "done"}
  /\ (cnet.t = "req" /\ csid = session) => (endIssued /\ cnet.method = "DELETE")

C12_Witness ==
  /\ endIssued /\ cpc = "idle" /\ cresult.some /\ cresult.v.ok
  /\ pc = "polling" /\ net.t = "req" /\ polls = 3 /\ ~overflow
  /\ endedPolling /\ pending = 2

\* A response on which start_nfc_enrollment_session returns a session id.
StartSucceeds(body) ==
  /\ SuccessEnvelope(body) /\ HasData(body)
  /\ body.f["data"].t = "obj"
  /\ "session_id" \in DOMAIN body.f["data"].f
  /\ body.f["data"].f["session_id"].t = "str"

\* The failure of start_nfc_enrollment_session on any other response.
StartFailure(body) ==
  IF body = TransportFailure THEN ReqwestError
  ELSE IF ~WellFormed(body) THEN MalformedResponse
  ELSE IF ~SuccessEnvelope(body) THEN ApiError(PathSessions, body)
  ELSE IF ~HasData(body) THEN MissingData
  ELSE IF ~(body.f["data"].t = "obj"
              /\ "session_id" \in DOMAIN body.f["data"].f)
  THEN SimpleError(<<"session_id not found in response">>)
  ELSE SimpleError(<<"session_id not a string">>)

\* C13: a status request of enroll is in flight only when start has returned
\* the id that the server gave, and it is the request for that id; once a
\* poll has received a body that is not token-empty (a card, a cancellation
\* or an error), enroll has returned and has no request in flight; when start
\* fails, enroll returns the failure of start with no poll issued.
C13_Lifecycle ==
  /\ [](/\ (pc = "polling" /\ net.t = "req") =>
            /\ nextSid > 1 /\ session = Some(Sid(nextSid - 1))
            /\ net = Request("GET", PathSession(session.v), JNull)
        /\ polls > 0 => session.some
        /\ (received > 0 /\ ~IsTokenEmptyBody(lastBody)) =>
            /\ pc = "done" /\ net = Idle /\ result.some
        /\ (pc = "done" /\ session = None) =>
            /\ polls = 0 /\ received = 0 /\ net = Idle
            /\ result.some /\ ~result.v.ok)
  /\ [][(pc = "start" /\ pc' # "start" /\ ~StartSucceeds(net)) =>
          /\ pc' = "done" /\ result' = Some(Err(StartFailure(net)))
          /\ polls' = 0 /\ net' = Idle /\ session' = None]_vars

C13_Witness ==
  /\ pc = "done" /\ session = None /\ polls = 0 /\ nextSid = 2
  /\ result = Some(Err(SimpleError(<<"session_id not a string">>)))

\* C14 (the claim as stated): when a poll of enroll has received a marker-free
\* well-formed envelope, enroll returns a card only if the code of the
\* envelope is SUCCESS, and for any other code it returns the failure that
\* carries the msg of the envelope.
C14_PollNeedsSuccess ==
  (received > 0 /\ WellFormed(lastBody) /\ ~HasMarker(lastBody)) =>
    /\ (result.some /\ result.v.ok) => SuccessEnvelope(lastBody)
    /\ ~SuccessEnvelope(lastBody) =>
         result = Some(Err(ApiError(PathSession(session.v), lastBody)))

\* C15: whatever else a poll body is, when it contains SESSION_NOT_FOUND
\* enroll has returned the SessionCanceled failure, and when it contains
\* TOKEN_EMPTY and not SESSION_NOT_FOUND enroll has not returned and stays in
\* its loop; a body that contains a marker is never returned as a card, also
\* when it is a SUCCESS envelope whose data is a card.
C15_SentinelFirst ==
  received > 0 =>
    /\ SESSION_NOT_FOUND \in Words(lastBody) => result = Canceled
    /\ IsTokenEmptyBody(lastBody) => (InLoop /\ result = None)
    /\ (result.some /\ result.v.ok) => ~HasMarker(lastBody)

C15_Witness ==
  /\ pc = "done" /\ result = Canceled /\ received = 2 /\ pending = 1
  /\ SuccessEnvelope(lastBody) /\ HasData(lastBody)
  /\ DecodeNfcCard(lastBody.f["data"]).ok
  /\ lastBody.f["data"].f["id"].s = <<SESSION_NOT_FOUND>>

\* The failure of get_nfc_enrollment_session_status on an envelope without
\* data.
DataNotFound == SimpleError(<<"data not found in response">>)

\* C16: when a poll of enroll has received a marker-free well-formed envelope
\* that has no data (the field is missing or null), enroll has returned the
\* data-not-found failure, so the body has been taken neither for pending nor
\* for a card; enroll is back in its loop after a poll only when the body of
\* that poll contains TOKEN_EMPTY.
C16_AbsentPayload ==
  /\ (received > 0 /\ WellFormed(lastBody) /\ ~HasMarker(lastBody)
        /\ ~HasData(lastBody))
       => /\ pc = "done" /\ net = Idle
          /\ result = Some(Err(DataNotFound))
  /\ (received > 0 /\ InLoop) => TOKEN_EMPTY \in Words(lastBody)

C16_Witness ==
  /\ pc = "done" /\ received = 2 /\ pending = 1
  /\ lastBody = Envelope(SUCCESS, MsgOk, JNull)
  /\ result = Some(Err(DataNotFound))

\* A response on which get_nfc_enrollment_session_status fails.
PollFails(body) ==
  \/ body = TransportFailure
  \/ SESSION_NOT_FOUND \in Words(body)
  \/ /\ TOKEN_EMPTY \notin Words(body)
     /\ \/ ~WellFormed(body)
        \/ ~HasData(body)
        \/ ~DecodeNfcCard(body.f["data"]).ok

\* The failure of get_nfc_enrollment_session_status on such a response.
PollFailure(body) ==
  IF body = TransportFailure THEN ReqwestError
  ELSE IF SESSION_NOT_FOUND \in Words(body) THEN SessionCanceled
  ELSE IF ~WellFormed(body) THEN MalformedResponse
  ELSE IF ~HasData(body) THEN DataNotFound
  ELSE SchemaMismatch

\* C17: the step of enroll that takes a failed response of start or of a
\* poll returns that failure at once, with no request left in flight and no
\* further poll or sleep; enroll issues a poll only as its first one or after
\* a token-empty body; the requests of enroll are the POST of start and the
\* GET of the status, never the DELETE that ends the session.
C17_NoRetry ==
  /\ [][/\ (pc = "start" /\ IsResponse(net) /\ ~IsResponse(net')
            /\ ~StartSucceeds(net))
           => /\ pc' = "done" /\ net' = Idle
              /\ result' = Some(Err(StartFailure(net)))
              /\ polls' = 0 /\ sleeps' = 0
        /\ (pc = "polling" /\ IsResponse(net) /\ ~IsResponse(net')
            /\ PollFails(net))
           => /\ pc' = "done" /\ net' = Idle
              /\ result' = Some(Err(PollFailure(net)))
              /\ polls' = polls /\ sleeps' = sleeps
        /\ (pc # "polling" /\ pc' = "polling")
           => (received = 0 \/ IsTokenEmptyBody(lastBody))]_vars
  /\ [](/\ net.t = "req" => net.method \in {"POST", "GET"}
        /\ pc = "done" => net = Idle
        /\ pc = "sleep" => IsTokenEmptyBody(lastBody))

C17_Witness ==
  /\ pc = "done" /\ received = 3 /\ pending = 2 /\ polls = 3 /\ sleeps = 2
  /\ ~overflow /\ lastBody = TransportFailure
  /\ result = Some(Err(ReqwestError))

\* C18: after a successful start enroll has returned exactly when a poll has
\* received a body that is not token-empty; as long as every body received
\* is token-empty it stays in its loop, where the next poll and the next
\* sleep are possible whatever the number of polls and sleeps so far.
C18_NoTimeout ==
  /\ (pc = "done" /\ session.some) <=>
       (received > 0 /\ ~IsTokenEmptyBody(lastBody))
  /\ InLoop =>
       /\ session.some /\ result = None /\ pending = received
       /\ received > 0 => IsTokenEmptyBody(lastBody)
  /\ pc = "poll" => ENABLED EnrollPollSend
  /\ pc = "sleep" => ENABLED EnrollSleep

C18_Witness ==
  /\ pc = "polling" /\ overflow /\ polls = MaxPolls /\ sleeps = MaxPolls
  /\ received = MaxPolls /\ pending = MaxPolls /\ result = None

\* C19: enroll holds the mutex of the holder exactly while it is at its write,
\* which comes after start and before the first poll, and the canceller
\* exactly while it reads, so the write and the reads exclude each other;
\* enroll takes the mutex only from the statement that follows start and
\* gives it back on entering the loop; in the loop every step of enroll is
\* possible whoever holds the mutex, and a reader can take the free mutex.
C19_LockOutsideLoop ==
  /\ [](/\ lock \in {Free, "enroll", "canceller"}
        /\ lock = "enroll" <=> pc = "store"
        /\ lock = "canceller" <=> cpc = "read"
        /\ pc = "store" =>
             /\ session.some /\ net = Idle
             /\ polls = 0 /\ sleeps = 0 /\ received = 0
        /\ pc = "poll" => ENABLED EnrollPollSend
        /\ (pc = "polling" /\ IsResponse(net)) => ENABLED EnrollPollReturn
        /\ pc = "sleep" => ENABLED EnrollSleep
        /\ (InLoop /\ cpc = "idle") => ENABLED CancelLock)
  /\ [][/\ (lock # "enroll" /\ lock' = "enroll") =>
             (pc = "lock" /\ lock = Free /\ pc' = "store")
        /\ (lock = "enroll" /\ lock' # "enroll") =>
             (lock' = Free /\ pc' = "poll" /\ holder' = session)]_vars

C19_Witness ==
  /\ pc = "polling" /\ IsResponse(net) /\ polls = 2 /\ sleeps = 1
  /\ lock = "canceller" /\ cpc = "read" /\ holder = session

\* C20: the holder changes only in the write of enroll that follows a
\* successful start, and it then becomes the id that start returned; the step
\* in which start fails and the step in which enroll returns leave it as it
\* is, so after a call that got its session the holder still contains that
\* session's id when enroll has returned, whatever it returned.
C20_HolderFrame ==
  /\ [][/\ holder' # holder =>
             /\ pc = "store" /\ pc' = "poll" /\ polls = 0
             /\ session.some /\ holder' = session
        /\ pc' = "done" => holder' = holder]_vars
  /\ []((pc = "done" /\ session.some) => holder = session)

C20_Witness ==
  /\ pc = "done" /\ session = None /\ result.some /\ ~result.v.ok
  /\ nextSid = 2 /\ holder = Some(Sid(1))
  /\ cpc = "end" /\ csid = holder

====
